---- MODULE Spec2Model ----
(***************************************************************************)
(* The shopping-cart web application of src/web/app.py: the per-session    *)
(* cart kept in the Flask session, the request handlers that mutate it,    *)
(* and the CSV transaction log written at checkout and rewritten by        *)
(* delete.                                                                 *)
(*                                                                         *)
(* Text is modelled as what it is: a string is a sequence of one-character *)
(* strings, so that strip(), lower(), len(), startswith(), the format      *)
(* specifications ':.2f' and strftime, and the parsers int() and float()   *)
(* are computed, not assumed.  A CSV line is the sequence of its fields.   *)
(*                                                                         *)
(* A Python float holding an amount of money is modelled by the exact      *)
(* decimal value, an integer number of units of 1e-4 dollar (Scale units   *)
(* to the dollar).  The prices the model submits are multiples of 0.25, so *)
(* that price * quantity * TAX_RATE (TAX_RATE has four decimals) is a      *)
(* whole number of units and no product is rounded by the model.           *)
(***************************************************************************)
EXTENDS Integers, Sequences, FiniteSets, TLC

VARIABLES
    session,    \* the Flask session: a mapping, with key "cart_items" once set
    file,       \* transactions.csv: whether it exists, and its lines
    now,        \* the wall clock, in seconds since 00:00:00 of day 0
    flash,      \* the message the last handler flashed, with what it returned
    inflight    \* the requests being served that have not ended yet: what a
                \* checkout and a delete hold in their local variables

vars == <<session, file, now, flash, inflight>>

----------------------------------------------------------------------------
(* Bounds of the model. *)

MaxTicks == 1          \* the clock runs from StartTime to StartTime + MaxTicks
MaxLogRows == 3        \* checkout is explored while the log holds at most this many rows
MaxSmallQty == 2       \* quantities explored: 1..MaxSmallQty and
                       \* MAX_QUANTITY..MAX_QUANTITY + MaxSmallQty

CartLogRows == 1       \* the bound on the log's rows in the cart's specification
CartTicks == 0         \* the bound on the clock in the cart's specification

(* Program constants. *)

MAX_NAME_LEN == 100    \* add_item: len(name) > 100
MAX_QUANTITY == 1000   \* add_item, update_quantity: quantity > 1000

----------------------------------------------------------------------------
(* Strings as sequences of characters. *)

Range(s) == {s[i] : i \in DOMAIN s}

Digits == <<"0", "1", "2", "3", "4", "5", "6", "7", "8", "9">>

UpperChars == <<"A", "B", "C", "D", "E", "F", "G", "H", "I", "J", "K", "L", "M",
                "N", "O", "P", "Q", "R", "S", "T", "U", "V", "W", "X", "Y", "Z">>

LowerChars == <<"a", "b", "c", "d", "e", "f", "g", "h", "i", "j", "k", "l", "m",
                "n", "o", "p", "q", "r", "s", "t", "u", "v", "w", "x", "y", "z">>

IsSpace(c) == c \in {" ", "\t", "\n", "\r"}

LowerChar(c) ==
    IF \E i \in DOMAIN UpperChars : UpperChars[i] = c
    THEN LowerChars[CHOOSE i \in DOMAIN UpperChars : UpperChars[i] = c]
    ELSE c

\* str.lower()
Lower(s) == [i \in DOMAIN s |-> LowerChar(s[i])]

\* str.strip(): drop the leading and the trailing whitespace
Strip(s) ==
    LET inked == {i \in DOMAIN s : ~IsSpace(s[i])}
    IN  IF inked = {} THEN <<>>
        ELSE LET lo == CHOOSE i \in inked : \A j \in inked : i <= j
                 hi == CHOOSE i \in inked : \A j \in inked : j <= i
             IN  SubSeq(s, lo, hi)

\* str.startswith(prefix)
StartsWith(s, prefix) ==
    /\ Len(prefix) <= Len(s)
    /\ SubSeq(s, 1, Len(prefix)) = prefix

IsDigit(c) == \E i \in DOMAIN Digits : Digits[i] = c

DigitValue(c) == (CHOOSE i \in DOMAIN Digits : Digits[i] = c) - 1

AllDigits(s) == \A i \in DOMAIN s : IsDigit(s[i])

RECURSIVE DigitsValue(_)
DigitsValue(s) ==
    IF s = <<>> THEN 0
    ELSE 10 * DigitsValue(SubSeq(s, 1, Len(s) - 1)) + DigitValue(s[Len(s)])

RECURSIVE NatToStr(_)
NatToStr(n) ==
    IF n < 10 THEN <<Digits[n + 1]>>
    ELSE NatToStr(n \div 10) \o <<Digits[(n % 10) + 1]>>

\* str(n) of an int
IntToStr(n) == IF n < 0 THEN <<"-">> \o NatToStr(-n) ELSE NatToStr(n)

\* '%02d' and '%04d' of a natural number
ZeroPad(n, width) ==
    LET s == NatToStr(n)
    IN  IF Len(s) >= width THEN s
        ELSE [i \in 1..(width - Len(s)) |-> "0"] \o s

----------------------------------------------------------------------------
(* Numbers: int(), float(), and the ':.2f' format. *)

Scale == 10000         \* units of money to the dollar: a unit is 1e-4 dollar

\* ShoppingItem.TAX_RATE = 0.1044, in units of 1e-4
TAX_RATE == 1044

SignOf(s) == IF s # <<>> /\ s[1] \in {"+", "-"} THEN s[1] ELSE ""

Unsigned(s) == IF SignOf(s) = "" THEN s ELSE Tail(s)

\* int(s) of a stripped string: an optional sign and one or more digits, or
\* ValueError (ok = FALSE)
ParseInt(s) ==
    LET body == Unsigned(s)
    IN  IF body # <<>> /\ AllDigits(body)
        THEN [ok |-> TRUE,
              val |-> IF SignOf(s) = "-" THEN -DigitsValue(body) ELSE DigitsValue(body)]
        ELSE [ok |-> FALSE, val |-> 0]

\* the float nan where an amount is expected (an amount in units is >= 0)
NaN == -1

\* float(s) of a stripped string: an optional sign, then either digits and
\* optionally a point and digits, one digit at least (plain decimal notation),
\* or one of the words nan, inf, infinity in any case; or ValueError.
\* The value is whole + frac/Scale dollars, negated when neg, and the fraction
\* keeps four decimals; special is "nan" or "inf" for these values, else "".
ParseFloat(s) ==
    LET body   == Unsigned(s)
        points == {i \in DOMAIN body : body[i] = "."}
        dot    == IF points = {} THEN Len(body) + 1 ELSE CHOOSE i \in points : TRUE
        ipart  == SubSeq(body, 1, dot - 1)
        fpart  == SubSeq(body, dot + 1, Len(body))
        f4     == SubSeq(fpart \o <<"0", "0", "0", "0">>, 1, 4)
    IN  IF Lower(body) = <<"n", "a", "n">>
        THEN [ok |-> TRUE, neg |-> SignOf(s) = "-", special |-> "nan",
              whole |-> 0, frac |-> 0]
        ELSE IF Lower(body) \in {<<"i", "n", "f">>,
                                 <<"i", "n", "f", "i", "n", "i", "t", "y">>}
        THEN [ok |-> TRUE, neg |-> SignOf(s) = "-", special |-> "inf",
              whole |-> 0, frac |-> 0]
        ELSE IF /\ Cardinality(points) <= 1
                /\ AllDigits(ipart) /\ AllDigits(fpart)
                /\ Len(ipart) + Len(fpart) >= 1
        THEN [ok |-> TRUE, neg |-> SignOf(s) = "-", special |-> "",
              whole |-> DigitsValue(ipart), frac |-> DigitsValue(f4)]
        ELSE [ok |-> FALSE, neg |-> FALSE, special |-> "", whole |-> 0, frac |-> 0]

\* price <= 0: every comparison with nan is False
FloatLeZero(p) ==
    IF p.special = "nan" THEN FALSE
    ELSE IF p.special = "inf" THEN p.neg
    ELSE (p.whole = 0 /\ p.frac = 0) \/ p.neg

\* price > 999999.99
FloatGtMaxPrice(p) ==
    IF p.special = "nan" THEN FALSE
    ELSE IF p.special = "inf" THEN ~p.neg
    ELSE ~p.neg /\ (p.whole > 999999 \/ (p.whole = 999999 /\ p.frac > 9900))

\* the float as an amount of money, in units (of a float that is not infinite)
FloatUnits(p) ==
    IF p.special = "nan" THEN NaN
    ELSE (IF p.neg THEN -1 ELSE 1) * (p.whole * Scale + p.frac)

\* a + b of two amounts
FloatAdd(a, b) == IF a = NaN \/ b = NaN THEN NaN ELSE a + b

\* a == b of two amounts: nan equals nothing, itself included
FloatEq(a, b) == a # NaN /\ b # NaN /\ a = b

\* x * TAX_RATE for an amount x >= 0 in units, computed in two parts so that
\* no intermediate product leaves the 32-bit integers
MulTaxRate(x) ==
    (x \div Scale) * TAX_RATE + ((x % Scale) * TAX_RATE) \div Scale

\* round(x / step) to the nearest integer, a tie going to the even one, x >= 0
RoundHalfEven(x, step) ==
    LET q == x \div step
        r == x % step
    IN  IF 2 * r > step \/ (2 * r = step /\ q % 2 = 1) THEN q + 1 ELSE q

\* the amount in cents that f"{x:.2f}" prints
Cents(x) == RoundHalfEven(x, Scale \div 100)

\* (a variant that cuts the digits after the second instead of rounding)
Format2f_truncating(x) ==
    NatToStr(x \div Scale) \o <<".">> \o ZeroPad((x \div (Scale \div 100)) % 100, 2)

\* f"{x:.2f}" of an amount x >= 0 in units, or of nan
Format2f(x) ==
    IF x = NaN THEN <<"n", "a", "n">>
    ELSE NatToStr(Cents(x) \div 100) \o <<".">> \o ZeroPad(Cents(x) % 100, 2)

\* float(s) of a string that ':.2f' wrote, as an amount in cents
Float2Cents(s) ==
    LET p == ParseFloat(s)
    IN  IF p.special = "nan" THEN NaN
        ELSE p.whole * 100 + p.frac \div (Scale \div 100)

----------------------------------------------------------------------------
(* The clock and strftime. *)

SecondsPerDay == 86400

\* the clock starts at 23:59:58 of day 0, so that a date change is within reach
StartTime == 86398

\* the calendar: day 0 is 2025-12-31, day d >= 1 is the d-th of January 2026
Calendar(d) == IF d = 0 THEN <<2025, 12, 31>> ELSE <<2026, 1, d>>

DayOf(t) == t \div SecondsPerDay

SecondOf(t) == t % SecondsPerDay

\* strftime('%Y%m%d')
StrfYmdCompact(t) ==
    LET c == Calendar(DayOf(t))
    IN  ZeroPad(c[1], 4) \o ZeroPad(c[2], 2) \o ZeroPad(c[3], 2)

\* strftime('%H%M%S')
StrfHmsCompact(t) ==
    LET s == SecondOf(t)
    IN  ZeroPad(s \div 3600, 2) \o ZeroPad((s \div 60) % 60, 2) \o ZeroPad(s % 60, 2)

\* strftime('%Y-%m-%d')
StrfDate(t) ==
    LET c == Calendar(DayOf(t))
    IN  ZeroPad(c[1], 4) \o <<"-">> \o ZeroPad(c[2], 2) \o <<"-">> \o ZeroPad(c[3], 2)

\* strftime('%H:%M:%S')
StrfTime(t) ==
    LET s == SecondOf(t)
    IN  ZeroPad(s \div 3600, 2) \o <<":">> \o ZeroPad((s \div 60) % 60, 2)
        \o <<":">> \o ZeroPad(s % 60, 2)

TxnPrefix == <<"T", "X", "N", "_">>

\* f"TXN_{datetime.datetime.now().strftime('%Y%m%d_%H%M%S')}"
TransactionId(t) == TxnPrefix \o StrfYmdCompact(t) \o <<"_">> \o StrfHmsCompact(t)

----------------------------------------------------------------------------
(* ShoppingItem *)

ShoppingItem(name, price, quantity) ==
    [name |-> name, price |-> price, quantity |-> quantity]

item_get_subtotal(item) ==
    IF item.price = NaN THEN NaN ELSE item.price * item.quantity

item_get_tax(item) ==
    IF item_get_subtotal(item) = NaN THEN NaN ELSE MulTaxRate(item_get_subtotal(item))

item_get_total(item) == FloatAdd(item_get_subtotal(item), item_get_tax(item))

to_dict(item) ==
    [name |-> item.name, price |-> item.price, quantity |-> item.quantity,
     subtotal |-> item_get_subtotal(item), tax |-> item_get_tax(item),
     total |-> item_get_total(item)]

----------------------------------------------------------------------------
(* ShoppingCart: self.items is a sequence of ShoppingItem. *)

\* (a variant that compares the names as they are)
find_item_case_sensitive(items, item_name) ==
    LET hits == {i \in DOMAIN items : items[i].name = item_name}
    IN  IF hits = {} THEN 0 ELSE CHOOSE i \in hits : \A j \in hits : i <= j

\* the index of the first item whose name matches ignoring case, 0 for None
find_item(items, item_name) ==
    LET hits == {i \in DOMAIN items : Lower(items[i].name) = Lower(item_name)}
    IN  IF hits = {} THEN 0 ELSE CHOOSE i \in hits : \A j \in hits : i <= j

\* (a variant that sets the quantity of the item found instead of adding to it)
add_item_sets_quantity(items, item) ==
    LET i == find_item(items, item.name)
    IN  IF i # 0
        THEN [items EXCEPT ![i].quantity = item.quantity]
        ELSE Append(items, item)

add_item(items, item) ==
    LET i == find_item(items, item.name)
    IN  IF i # 0
        THEN [items EXCEPT ![i].quantity = @ + item.quantity]
        ELSE Append(items, item)

\* del self.items[i]
DelAt(items, i) == SubSeq(items, 1, i - 1) \o SubSeq(items, i + 1, Len(items))

\* (a variant that compares the names as they are)
remove_item_case_sensitive(items, item_name) ==
    LET hits == {i \in DOMAIN items : items[i].name = item_name}
    IN  IF hits = {} THEN [items |-> items, ret |-> FALSE]
        ELSE [items |-> DelAt(items, CHOOSE i \in hits : \A j \in hits : i <= j),
              ret |-> TRUE]

remove_item(items, item_name) ==
    LET hits == {i \in DOMAIN items : Lower(items[i].name) = Lower(item_name)}
    IN  IF hits = {} THEN [items |-> items, ret |-> FALSE]
        ELSE [items |-> DelAt(items, CHOOSE i \in hits : \A j \in hits : i <= j),
              ret |-> TRUE]

\* (a variant that keeps the item at quantity 0 instead of removing it)
update_item_quantity_keeps_zero(items, item_name, new_quantity) ==
    LET i == find_item(items, item_name)
    IN  IF i # 0
        THEN [items |-> [items EXCEPT ![i].quantity = new_quantity], ret |-> TRUE]
        ELSE [items |-> items, ret |-> FALSE]

update_item_quantity(items, item_name, new_quantity) ==
    LET i == find_item(items, item_name)
    IN  IF i # 0
        THEN IF new_quantity <= 0
             THEN remove_item(items, item_name)
             ELSE [items |-> [items EXCEPT ![i].quantity = new_quantity], ret |-> TRUE]
        ELSE [items |-> items, ret |-> FALSE]

RECURSIVE Sum(_)
\* sum(amounts), left to right from 0
Sum(amounts) ==
    IF amounts = <<>> THEN 0
    ELSE FloatAdd(Sum(SubSeq(amounts, 1, Len(amounts) - 1)), amounts[Len(amounts)])

cart_get_total(items) == Sum([i \in DOMAIN items |-> item_get_total(items[i])])

cart_get_subtotal(items) == Sum([i \in DOMAIN items |-> item_get_subtotal(items[i])])

cart_get_tax(items) == Sum([i \in DOMAIN items |-> item_get_tax(items[i])])

clear_cart(items) == <<>>

----------------------------------------------------------------------------
(* TransactionManager over transactions.csv.                               *)
(* file = [exists, lines]: lines is the sequence of the CSV records of the *)
(* file, each the sequence of its fields (csv.writer and csv.reader are    *)
(* inverse on fields, which quoting makes true of any text).               *)

S_Transaction_ID == <<"T","r","a","n","s","a","c","t","i","o","n","_","I","D">>
S_Date == <<"D","a","t","e">>
S_Time == <<"T","i","m","e">>
S_Item_Name == <<"I","t","e","m","_","N","a","m","e">>
S_Price == <<"P","r","i","c","e">>
S_Quantity == <<"Q","u","a","n","t","i","t","y">>
S_Subtotal == <<"S","u","b","t","o","t","a","l">>
S_Tax == <<"T","a","x">>
S_Total == <<"T","o","t","a","l">>

Header ==
    <<S_Transaction_ID, S_Date, S_Time, S_Item_Name, S_Price, S_Quantity,
      S_Subtotal, S_Tax, S_Total>>

NoFile == [exists |-> FALSE, lines |-> <<>>]

init_database(f) ==
    IF ~f.exists THEN [exists |-> TRUE, lines |-> <<Header>>] ELSE f

\* (a variant that writes the unit price as the subtotal)
TransactionRow_unit_subtotal(transaction_id, current_date, current_time, item) ==
    <<transaction_id, current_date, current_time, item.name,
      Format2f(item.price), IntToStr(item.quantity),
      Format2f(item.price), Format2f(item_get_tax(item)),
      Format2f(item_get_total(item))>>

\* the row save_transaction writes for one item
TransactionRow(transaction_id, current_date, current_time, item) ==
    <<transaction_id, current_date, current_time, item.name,
      Format2f(item.price), IntToStr(item.quantity),
      Format2f(item_get_subtotal(item)), Format2f(item_get_tax(item)),
      Format2f(item_get_total(item))>>

\* (a variant that opens the file with 'w')
save_transaction_truncating(f, cart_items, t1, t2, t3) ==
    [file |-> [exists |-> TRUE,
               lines |-> [i \in DOMAIN cart_items |->
                            TransactionRow(TransactionId(t1), StrfDate(t2), StrfTime(t3),
                                           cart_items[i])]],
     ret  |-> TransactionId(t1)]

\* (a variant that writes the row of the first item only)
save_transaction_first_only(f, cart_items, t1, t2, t3) ==
    [file |-> [exists |-> TRUE,
               lines |-> f.lines \o
                   <<TransactionRow(TransactionId(t1), StrfDate(t2), StrfTime(t3),
                                    cart_items[1])>>],
     ret  |-> TransactionId(t1)]

\* save_transaction with the clock read at t1 (the id), t2 (the date) and t3
\* (the time); open(..., 'a') creates the file when it is absent
save_transaction(f, cart_items, t1, t2, t3) ==
    [file |-> [exists |-> TRUE,
               lines |-> f.lines \o
                   [i \in DOMAIN cart_items |->
                       TransactionRow(TransactionId(t1), StrfDate(t2), StrfTime(t3),
                                      cart_items[i])]],
     ret  |-> TransactionId(t1)]

\* csv.DictReader: the first record gives the field names, each further record
\* is a mapping from field name to value (of a name that occurs twice, the
\* last value); every record the program writes has as many fields as the
\* first
DictFieldnames(lines) == IF lines = <<>> THEN <<>> ELSE Head(lines)

DictRow(fieldnames, rec) ==
    [k \in Range(fieldnames) |->
        rec[CHOOSE i \in DOMAIN fieldnames :
                /\ fieldnames[i] = k
                /\ \A j \in DOMAIN fieldnames : fieldnames[j] = k => j <= i]]

DictReader(lines) ==
    IF lines = <<>> THEN <<>>
    ELSE [i \in 1..(Len(lines) - 1) |-> DictRow(Head(lines), lines[i + 1])]

\* csv.DictWriter.writerow: the values in the order of fieldnames
DictRecord(fieldnames, row) == [i \in DOMAIN fieldnames |-> row[fieldnames[i]]]

\* row[key] raises KeyError in some row
KeyMissing(rows, key) == \E i \in DOMAIN rows : key \notin DOMAIN rows[i]

get_all_transactions(f) == IF f.exists THEN DictReader(f.lines) ELSE <<>>

\* [raised, ret]: raised names the exception that ended the call, "" for none
get_transaction_by_id(f, transaction_id) ==
    LET rows == get_all_transactions(f)
        Match(row) == row[S_Transaction_ID] = transaction_id
    IN  IF KeyMissing(rows, S_Transaction_ID)
        THEN [raised |-> "KeyError", ret |-> <<>>]
        ELSE [raised |-> "", ret |-> SelectSeq(rows, Match)]

\* (a variant that keeps a second and further rows of the id)
delete_transaction_first_row(f, transaction_id) ==
    IF ~f.exists THEN [raised |-> "", ret |-> FALSE, file |-> f]
    ELSE
      LET hits == {i \in DOMAIN f.lines : i > 1 /\ f.lines[i][1] = transaction_id}
      IN  [raised |-> "", ret |-> TRUE,
           file |-> [exists |-> TRUE,
                     lines |-> IF hits = {} THEN f.lines
                               ELSE DelAt(f.lines,
                                          CHOOSE i \in hits : \A j \in hits : i <= j)]]

\* (a variant that returns whether a row was removed)
delete_transaction_reports_match(f, transaction_id) ==
    IF ~f.exists THEN [raised |-> "", ret |-> FALSE, file |-> f]
    ELSE
      LET kept == SelectSeq(f.lines, LAMBDA rec : rec[1] # transaction_id)
      IN  [raised |-> "", ret |-> kept # f.lines,
           file |-> [exists |-> TRUE, lines |-> kept]]

\* [raised, ret, file]
delete_transaction(f, transaction_id) ==
    IF ~f.exists THEN [raised |-> "", ret |-> FALSE, file |-> f]
    ELSE
      LET fieldnames == DictFieldnames(f.lines)
          rows       == DictReader(f.lines)
          Keep(row)  == row[S_Transaction_ID] # transaction_id
      IN  IF KeyMissing(rows, S_Transaction_ID)
          THEN [raised |-> "KeyError", ret |-> FALSE, file |-> f]
          ELSE LET all_transactions == SelectSeq(rows, Keep)
               IN  [raised |-> "", ret |-> TRUE,
                    file |-> [exists |-> TRUE,
                              lines |-> IF fieldnames # <<>>
                                        THEN <<fieldnames>> \o
                                             [i \in DOMAIN all_transactions |->
                                                DictRecord(fieldnames, all_transactions[i])]
                                        ELSE <<>>]]

\* (a variant without the test for an empty cart)
complete_transaction_unguarded(items, f, t1, t2, t3) ==
    LET saved == save_transaction(f, items, t1, t2, t3)
    IN  [raised |-> "", ret |-> saved.ret, items |-> clear_cart(items),
         file |-> saved.file]

\* ShoppingCart.complete_transaction: [raised, ret, items, file]
complete_transaction(items, f, t1, t2, t3) ==
    IF items = <<>>
    THEN [raised |-> "ValueError", ret |-> <<>>, items |-> items, file |-> f]
    ELSE LET saved == save_transaction(f, items, t1, t2, t3)
         IN  [raised |-> "", ret |-> saved.ret, items |-> clear_cart(items),
              file |-> saved.file]

\* (a variant that clears the cart before it saves the transaction)
complete_transaction_raising_clears_first(items, f, t1, t2, t3, opened, written) ==
    [raised |-> "OSError", ret |-> <<>>, items |-> clear_cart(items),
     file |-> IF ~opened THEN f
              ELSE [exists |-> TRUE,
                    lines |-> SubSeq(save_transaction(f, items, t1, t2, t3).file.lines,
                                     1, Len(f.lines) + written)]]

\* save_transaction when the file system fails it with OSError: open() raises
\* (opened = FALSE) and the file is as it was, or open() succeeds, creating the
\* file when it is absent, written of the rows reach the file and the write of
\* the next one raises; the with statement closes the file.  [raised, file]
save_transaction_raising(f, cart_items, t1, t2, t3, opened, written) ==
    [raised |-> "OSError",
     file   |-> IF ~opened THEN f
                ELSE [exists |-> TRUE,
                      lines |-> SubSeq(save_transaction(f, cart_items, t1, t2, t3).file.lines,
                                       1, Len(f.lines) + written)]]

\* complete_transaction of a cart with items when save_transaction raises:
\* the exception leaves through it before clear_cart is reached
complete_transaction_raising(items, f, t1, t2, t3, opened, written) ==
    LET saved == save_transaction_raising(f, items, t1, t2, t3, opened, written)
    IN  [raised |-> saved.raised, ret |-> <<>>, items |-> items, file |-> saved.file]

\* delete_transaction of a file that exists, up to the end of its first with
\* statement: what it has read.  [raised, fieldnames, all_transactions]
delete_transaction_read(f, transaction_id) ==
    LET fieldnames == DictFieldnames(f.lines)
        rows       == DictReader(f.lines)
        Keep(row)  == row[S_Transaction_ID] # transaction_id
    IN  IF KeyMissing(rows, S_Transaction_ID)
        THEN [raised |-> "KeyError", fieldnames |-> fieldnames, all_transactions |-> <<>>]
        ELSE [raised |-> "", fieldnames |-> fieldnames,
              all_transactions |-> SelectSeq(rows, Keep)]

\* (a variant that reads the file again as it rewrites it)
delete_transaction_write_rereading(f, transaction_id, fieldnames, all_transactions) ==
    IF f.exists /\ ~KeyMissing(DictReader(f.lines), S_Transaction_ID)
    THEN delete_transaction(f, transaction_id).file
    ELSE [exists |-> TRUE,
          lines  |-> IF fieldnames # <<>>
                     THEN <<fieldnames>> \o
                          [i \in DOMAIN all_transactions |->
                             DictRecord(fieldnames, all_transactions[i])]
                     ELSE <<>>]

\* delete_transaction from its second with statement on: open(..., 'w')
\* truncates the file f, or creates it, and what was read is written.  The
\* file after it
delete_transaction_write(f, transaction_id, fieldnames, all_transactions) ==
    [exists |-> TRUE,
     lines  |-> IF fieldnames # <<>>
                THEN <<fieldnames>> \o
                     [i \in DOMAIN all_transactions |->
                        DictRecord(fieldnames, all_transactions[i])]
                ELSE <<>>]

----------------------------------------------------------------------------
(* The session. *)

NoSession == <<>>          \* a session with no key

\* (a variant that leaves the quantity of a rebuilt item at its default, 1)
get_cart_default_quantity(sess, f) ==
    LET sess1 == IF "cart_items" \in DOMAIN sess THEN sess ELSE [cart_items |-> <<>>]
    IN  [session |-> sess1,
         file    |-> init_database(f),
         items   |-> [i \in DOMAIN sess1.cart_items |->
                        ShoppingItem(sess1.cart_items[i].name,
                                     sess1.cart_items[i].price, 1)]]

\* [session, file, items]: get_cart sets session['cart_items'] when it is
\* absent, constructs a ShoppingCart (whose constructor constructs a
\* TransactionManager, which creates the file when it is absent) and rebuilds
\* the items from the session's dicts
get_cart(sess, f) ==
    LET sess1 == IF "cart_items" \in DOMAIN sess THEN sess ELSE [cart_items |-> <<>>]
    IN  [session |-> sess1,
         file    |-> init_database(f),
         items   |-> [i \in DOMAIN sess1.cart_items |->
                        ShoppingItem(sess1.cart_items[i].name,
                                     sess1.cart_items[i].price,
                                     sess1.cart_items[i].quantity)]]

save_cart(sess, items) ==
    [sess EXCEPT !.cart_items = [i \in DOMAIN items |-> to_dict(items[i])]]

----------------------------------------------------------------------------
(* The request handlers.  Each is one atomic step (one request is served   *)
(* at a time).  flash = [category, message, value]: the category and the   *)
(* text of the message the handler flashed, its placeholders unfilled,     *)
(* and in value the transaction id a completed checkout reports.           *)

Flash(category, message) == [category |-> category, message |-> message, value |-> <<>>]

NoFlash == Flash("", "")

Deleted == Flash("success", "Transaction deleted successfully")

NotDeleted == Flash("error", "Failed to delete transaction or transaction not found")

\* no request is being served
NoneInFlight ==
    [checkout |-> [active |-> FALSE, items |-> <<>>],
     delete   |-> [active |-> FALSE, transaction_id |-> <<>>,
                   fieldnames |-> <<>>, all_transactions |-> <<>>, flash |-> ""]]

\* the quantities the model follows: the small ones and those at MAX_QUANTITY
QtyInBounds(items) ==
    \A i \in DOMAIN items :
        \/ items[i].quantity <= MaxSmallQty
        \/ /\ items[i].quantity >= MAX_QUANTITY
           /\ items[i].quantity <= MAX_QUANTITY + MaxSmallQty

\* a handler that flashes an error and returns before it touches the cart
Reject(message) ==
    /\ flash' = Flash("error", message)
    /\ UNCHANGED <<session, file, now, inflight>>

\* '/': index() only reads the cart
Index ==
    LET c == get_cart(session, file)
    IN  /\ session' = c.session
        /\ file' = c.file
        /\ UNCHANGED <<now, flash, inflight>>

\* the error add_item() flashes for the form, "" when the form is valid
add_item_error(name, price_str, quantity_str) ==
    IF name = <<>> THEN "Please enter an item name"
    ELSE IF Len(name) > MAX_NAME_LEN THEN "Item name must be 100 characters or less"
    ELSE IF price_str = <<>> THEN "Please enter a price"
    ELSE IF ~ParseFloat(price_str).ok THEN "Please enter a valid price (numbers only)"
    ELSE IF FloatLeZero(ParseFloat(price_str)) THEN "Price must be greater than 0"
    ELSE IF FloatGtMaxPrice(ParseFloat(price_str)) THEN "Price must be less than $1,000,000"
    ELSE IF quantity_str = <<>> THEN "Please enter a quantity"
    ELSE IF ~ParseInt(quantity_str).ok THEN "Please enter a valid quantity (whole numbers only)"
    ELSE IF ParseInt(quantity_str).val <= 0 THEN "Quantity must be greater than 0"
    ELSE IF ParseInt(quantity_str).val > MAX_QUANTITY THEN "Quantity must be 1000 or less"
    ELSE ""

\* POST /add_item with the form fields as submitted
AddItemReq(form_name, form_price, form_quantity) ==
    LET name         == Strip(form_name)
        price_str    == Strip(form_price)
        quantity_str == Strip(form_quantity)
        error        == add_item_error(name, price_str, quantity_str)
    IN  IF error # "" THEN Reject(error)
        ELSE
          LET c     == get_cart(session, file)
              item  == ShoppingItem(name, FloatUnits(ParseFloat(price_str)),
                                    ParseInt(quantity_str).val)
              items == add_item(c.items, item)
          IN  /\ QtyInBounds(items)
              /\ session' = save_cart(c.session, items)
              /\ file' = c.file
              /\ flash' = Flash("success", "Added {quantity} x {name} to cart")
              /\ UNCHANGED <<now, inflight>>

\* GET /remove_item/<item_name>
RemoveItemReq(url_name) ==
    IF Strip(url_name) = <<>> THEN Reject("Invalid item name")
    ELSE
      LET item_name == Strip(url_name)
          c         == get_cart(session, file)
          r         == remove_item(c.items, item_name)
      IN  /\ session' = IF r.ret THEN save_cart(c.session, r.items) ELSE c.session
          /\ file' = c.file
          /\ flash' = IF r.ret THEN Flash("success", "Removed {item_name} from cart")
                      ELSE Flash("error", "Item not found in cart")
          /\ UNCHANGED <<now, inflight>>

\* the error update_quantity() flashes for the form, "" when the form is valid
update_quantity_error(item_name, new_quantity_str) ==
    IF item_name = <<>> THEN "Item name is required"
    ELSE IF new_quantity_str = <<>> THEN "Please enter a quantity"
    ELSE IF ~ParseInt(new_quantity_str).ok
         THEN "Please enter a valid quantity (whole numbers only)"
    ELSE IF ParseInt(new_quantity_str).val < 0 THEN "Quantity cannot be negative"
    ELSE IF ParseInt(new_quantity_str).val > MAX_QUANTITY THEN "Quantity must be 1000 or less"
    ELSE ""

\* POST /update_quantity
UpdateQuantityReq(form_name, form_quantity) ==
    LET item_name        == Strip(form_name)
        new_quantity_str == Strip(form_quantity)
        error            == update_quantity_error(item_name, new_quantity_str)
    IN  IF error # "" THEN Reject(error)
        ELSE
          LET new_quantity == ParseInt(new_quantity_str).val
              c            == get_cart(session, file)
              r            == update_item_quantity(c.items, item_name, new_quantity)
          IN  /\ session' = IF r.ret THEN save_cart(c.session, r.items) ELSE c.session
              /\ file' = c.file
              /\ flash' = IF ~r.ret THEN Flash("error", "Item not found in cart")
                          ELSE IF new_quantity = 0
                               THEN Flash("success", "Removed {item_name} from cart")
                               ELSE Flash("success",
                                          "Updated {item_name} quantity to {new_quantity}")
              /\ UNCHANGED <<now, inflight>>

\* GET /clear_cart
ClearCartReq ==
    LET c == get_cart(session, file)
    IN  /\ session' = save_cart(c.session, clear_cart(c.items))
        /\ file' = c.file
        /\ flash' = Flash("success", "Cart cleared")
        /\ UNCHANGED <<now, inflight>>

\* the data rows of the log
LogRows(f) == IF f.lines = <<>> THEN <<>> ELSE Tail(f.lines)

\* POST /checkout; save_transaction reads the clock three times, at now, t2
\* and t3, and the clock may have moved on by a second between two reads
CheckoutReq(t2, t3, max_ticks, max_rows) ==
    LET c == get_cart(session, file)
    IN  IF c.items = <<>>
        THEN /\ session' = c.session
             /\ file' = c.file
             /\ flash' = Flash("error", "Cart is empty")
             /\ UNCHANGED <<now, inflight>>
        ELSE
          LET r == complete_transaction(c.items, c.file, now, t2, t3)
          IN  /\ now <= t2 /\ t2 <= t3 /\ t3 <= now + 1
              /\ t3 <= StartTime + max_ticks
              /\ Len(LogRows(c.file)) + Len(c.items) <= max_rows
              /\ now' = t3
              /\ file' = r.file
              /\ session' = save_cart(c.session, r.items)
              /\ flash' = [category |-> "success",
                           message  |-> "Transaction completed! Transaction ID: {transaction_id}",
                           value    |-> r.ret]
              /\ UNCHANGED inflight

\* GET /delete_transaction/<transaction_id>
DeleteTransactionReq(url_id) ==
    IF Strip(url_id) = <<>> THEN Reject("Invalid transaction ID")
    ELSE IF ~StartsWith(Strip(url_id), TxnPrefix) THEN Reject("Invalid transaction ID format")
    ELSE
      LET r == delete_transaction(file, Strip(url_id))
      IN  /\ file' = r.file
          /\ flash' = IF r.raised # ""
                      THEN Flash("error", "An error occurred while deleting transaction: {e}")
                      ELSE IF r.ret THEN Flash("success", "Transaction deleted successfully")
                      ELSE Flash("error", "Failed to delete transaction or transaction not found")
          /\ UNCHANGED <<session, now, inflight>>

\* the exception generate_receipt_data(transactions) raises, "" for none: it
\* reads the columns of every row and converts the amounts and the quantity
generate_receipt_data_raises(transactions) ==
    IF \E i \in DOMAIN transactions :
          \E key \in {S_Transaction_ID, S_Date, S_Time, S_Item_Name, S_Price,
                      S_Quantity, S_Subtotal, S_Tax, S_Total} :
              key \notin DOMAIN transactions[i]
    THEN "KeyError"
    ELSE IF \E i \in DOMAIN transactions :
               \/ \E key \in {S_Subtotal, S_Tax, S_Total, S_Price} :
                      ~ParseFloat(Strip(transactions[i][key])).ok
               \/ ~ParseInt(Strip(transactions[i][S_Quantity])).ok
    THEN "ValueError"
    ELSE ""

\* the exception receipts() raises, "" for none: it reads Transaction_ID and
\* Total of every row, then Date and Time of the first row of every id
receipts_raises(f) ==
    LET transactions == get_all_transactions(f)
    IN  IF \E i \in DOMAIN transactions :
              \E key \in {S_Transaction_ID, S_Total, S_Date, S_Time} :
                  key \notin DOMAIN transactions[i]
        THEN "KeyError"
        ELSE IF \E i \in DOMAIN transactions :
                   ~ParseFloat(Strip(transactions[i][S_Total])).ok
        THEN "ValueError"
        ELSE ""

\* GET /receipts: receipts() has no try statement; it flashes nothing and
\* writes nothing, and an exception it raises ends the request unhandled
ReceiptsReq ==
    /\ receipts_raises(file) \in {"", "KeyError", "ValueError"}
    /\ UNCHANGED vars

\* GET /receipt/<transaction_id>
ViewReceiptReq(url_id) ==
    IF Strip(url_id) = <<>> THEN Reject("Invalid transaction ID")
    ELSE IF ~StartsWith(Strip(url_id), TxnPrefix) THEN Reject("Invalid transaction ID format")
    ELSE
      LET found == get_transaction_by_id(file, Strip(url_id))
      IN  IF found.raised # ""
          THEN Reject("An error occurred while viewing receipt: {e}")
          ELSE IF found.ret = <<>> THEN Reject("Transaction not found")
          ELSE IF generate_receipt_data_raises(found.ret) # ""
          THEN Reject("An error occurred while viewing receipt: {e}")
          ELSE UNCHANGED vars

\* the exception that leaves the handler of a route unhandled in the state
\* (sess, f), "" for none.  add_item, remove_item, update_quantity,
\* view_receipt and delete_transaction run in try ... except Exception;
\* checkout runs complete_transaction so; index, clear_cart_route and checkout
\* call get_cart outside any try, and get_cart raises nothing when the file
\* system does not fail it; receipts has no try
Unhandled(route, sess, f) ==
    IF route = "receipts" THEN receipts_raises(f) ELSE ""

Routes ==
    {"index", "add_item", "remove_item", "update_quantity", "clear_cart",
     "checkout", "receipts", "view_receipt", "delete_transaction"}

----------------------------------------------------------------------------
(* Requests that are not served in one step: between two steps of a request *)
(* the file is open to the other requests and to the environment.           *)

\* POST /checkout up to the call of save_transaction: get_cart has run and
\* the cart has items
CheckoutBegin ==
    LET c == get_cart(session, file)
    IN  /\ ~inflight.checkout.active
        /\ c.items # <<>>
        /\ session' = c.session
        /\ file' = c.file
        /\ inflight' = [inflight EXCEPT !.checkout = [active |-> TRUE, items |-> c.items]]
        /\ UNCHANGED <<now, flash>>

\* POST /checkout from save_transaction on, on the file as it is by now
CheckoutAppend(max_rows) ==
    /\ inflight.checkout.active
    /\ Len(file.lines) + Len(inflight.checkout.items) <= max_rows + 1
    /\ LET r == complete_transaction(inflight.checkout.items, file, now, now, now)
       IN  /\ file' = r.file
           /\ session' = save_cart(session, r.items)
           /\ flash' = [category |-> "success",
                        message  |-> "Transaction completed! Transaction ID: {transaction_id}",
                        value    |-> r.ret]
    /\ inflight' = [inflight EXCEPT !.checkout = NoneInFlight.checkout]
    /\ UNCHANGED now

\* POST /checkout from save_transaction on, when the file system fails the
\* append: the handler catches the exception and does not reach save_cart
CheckoutAppendFails(opened, written, max_rows) ==
    /\ inflight.checkout.active
    /\ written < Len(inflight.checkout.items)
    /\ opened \/ written = 0
    /\ Len(file.lines) + written <= max_rows + 1
    /\ LET r == complete_transaction_raising(inflight.checkout.items, file, now, now, now,
                                             opened, written)
       IN  file' = r.file
    /\ flash' = Flash("error", "Failed to complete transaction: {e}")
    /\ inflight' = [inflight EXCEPT !.checkout = NoneInFlight.checkout]
    /\ UNCHANGED <<session, now>>

\* GET /delete_transaction/<transaction_id> of another session, up to the
\* end of the first with statement of delete_transaction; the message goes to
\* that session, inflight.delete.flash
DeleteBegin(url_id) ==
    /\ ~inflight.delete.active
    /\ Strip(url_id) # <<>>
    /\ StartsWith(Strip(url_id), TxnPrefix)
    /\ LET transaction_id == Strip(url_id)
           r == delete_transaction_read(file, transaction_id)
       IN  inflight' =
             [inflight EXCEPT !.delete =
                IF ~file.exists
                THEN [NoneInFlight.delete EXCEPT !.transaction_id = transaction_id,
                                                 !.flash = NotDeleted.message]
                ELSE IF r.raised # ""
                THEN [NoneInFlight.delete EXCEPT
                        !.transaction_id = transaction_id,
                        !.flash = "An error occurred while deleting transaction: {e}"]
                ELSE [active |-> TRUE, transaction_id |-> transaction_id,
                      fieldnames |-> r.fieldnames,
                      all_transactions |-> r.all_transactions, flash |-> ""]]
    /\ UNCHANGED <<session, file, now, flash>>

\* the rest of that request: the second with statement of delete_transaction
DeleteRewrite ==
    /\ inflight.delete.active
    /\ file' = delete_transaction_write(file, inflight.delete.transaction_id,
                                        inflight.delete.fieldnames,
                                        inflight.delete.all_transactions)
    /\ inflight' = [inflight EXCEPT !.delete =
                       [NoneInFlight.delete EXCEPT
                          !.transaction_id = inflight.delete.transaction_id,
                          !.flash = Deleted.message]]
    /\ UNCHANGED <<session, now, flash>>

----------------------------------------------------------------------------
(* The environment. *)

\* a second passes
Tick(max_ticks) ==
    /\ now < StartTime + max_ticks
    /\ now' = now + 1
    /\ UNCHANGED <<session, file, flash, inflight>>

\* transactions.csv is removed from outside the program
RemoveStore ==
    /\ file.exists
    /\ file' = NoFile
    /\ UNCHANGED <<session, now, flash, inflight>>

----------------------------------------------------------------------------
(* What the requests of the model carry. *)

Milk == <<"M", "i", "l", "k">>
milk == <<"m", "i", "l", "k">>
MILK == <<"M", "I", "L", "K">>
Bread == <<"B", "r", "e", "a", "d">>
bread == <<"b", "r", "e", "a", "d">>
Eggs == <<"E", "g", "g", "s">>
eggs == <<"e", "g", "g", "s">>

Padded(s) == <<" ">> \o s \o <<" ">>

Price200 == <<"2", ".", "0", "0">>
Price350 == <<"3", ".", "5", "0">>

\* the seconds of the clock's range
Times(max_ticks) == StartTime..(StartTime + max_ticks)

\* POST /add_item forms of the log's specification
AddForms ==
    { <<Milk, Price200, <<"1">>>>,
      <<Padded(Bread), Price350, <<"1">>>> }

RemoveUrls == { milk }

UpdateForms == { <<bread, <<"2">>>>, <<Milk, <<"0">>>> }

\* transaction ids asked to be deleted: every id of the clock's range, and
\* ids the handler turns down
DeleteUrls(max_ticks) ==
    {TransactionId(t) : t \in Times(max_ticks)}
        \cup {Padded(TransactionId(StartTime)), <<" ">>, <<"t", "x", "n", "_", "1">>}

----------------------------------------------------------------------------
(* The specification of the cart and its log. *)

Init ==
    /\ session = NoSession
    /\ file = init_database(NoFile)    \* the module-level TransactionManager()
    /\ now = StartTime
    /\ flash = NoFlash
    /\ inflight = NoneInFlight

Next ==
    \/ Index
    \/ \E f \in AddForms : AddItemReq(f[1], f[2], f[3])
    \/ \E u \in RemoveUrls : RemoveItemReq(u)
    \/ \E f \in UpdateForms : UpdateQuantityReq(f[1], f[2])
    \/ ClearCartReq
    \/ \E t2, t3 \in Times(MaxTicks) : CheckoutReq(t2, t3, MaxTicks, MaxLogRows)
    \/ \E u \in DeleteUrls(MaxTicks) : DeleteTransactionReq(u)
    \/ Tick(MaxTicks)
    \/ RemoveStore

Spec == Init /\ [][Next]_vars

----------------------------------------------------------------------------
(* The specification of the cart: the cart's handlers under a wider choice *)
(* of forms, valid and invalid, with a log of at most CartLogRows rows.    *)

CartAddForms ==
    { <<Milk, Price200, <<"1">>>>,
      <<milk, Price350, <<"1", "0", "0", "0">>>>,
      <<Padded(Bread), Price350, <<"1">>>>,
      <<Eggs, Price200, <<"2">>>>,
      <<Eggs, Price200, <<"0">>>>,
      <<Eggs, Price200, <<"-", "1">>>>,
      <<Eggs, Price200, <<"1", "0", "0", "1">>>> }

CartRemoveUrls == { milk, bread, Padded(Eggs) }

CartUpdateForms ==
    { <<MILK, <<"0">>>>,
      <<MILK, <<"2">>>>,
      <<bread, <<"1", "0", "0", "0">>>>,
      <<Eggs, <<"1", "0", "0", "1">>>>,
      <<Eggs, <<"-", "1">>>> }

NextCart ==
    \/ Index
    \/ \E f \in CartAddForms : AddItemReq(f[1], f[2], f[3])
    \/ \E u \in CartRemoveUrls : RemoveItemReq(u)
    \/ \E f \in CartUpdateForms : UpdateQuantityReq(f[1], f[2])
    \/ ClearCartReq
    \/ \E t2, t3 \in Times(CartTicks) : CheckoutReq(t2, t3, CartTicks, CartLogRows)

SpecCart == Init /\ [][NextCart]_vars

----------------------------------------------------------------------------
(* The specification of the shared log: a checkout of this session and a   *)
(* delete of another session are served in two steps each, the store may   *)
(* be removed at any moment and the file system may fail an append.  The   *)
(* session sends one request at a time.  The clock stands still.           *)

EnvLogRows == 2        \* the bound on the log's rows in this specification

\* POST /add_item forms of this specification
EnvAddForms ==
    { <<Milk, Price200, <<"2">>>>,
      <<Bread, Price350, <<"2">>>> }

EnvDeleteUrls ==
    {TransactionId(StartTime), TransactionId(StartTime + 1)}

NextEnv ==
    \/ /\ ~inflight.checkout.active
       /\ \E f \in EnvAddForms : AddItemReq(f[1], f[2], f[3])
    \/ CheckoutBegin
    \/ CheckoutAppend(EnvLogRows)
    \/ \E opened \in BOOLEAN : \E written \in 0..1 :
          CheckoutAppendFails(opened, written, EnvLogRows)
    \/ \E u \in EnvDeleteUrls : DeleteBegin(u)
    \/ DeleteRewrite
    \/ /\ ~inflight.checkout.active
       /\ ReceiptsReq
    \/ /\ ~inflight.checkout.active
       /\ \E u \in EnvDeleteUrls : ViewReceiptReq(u)
    \/ RemoveStore

SpecEnv == Init /\ [][NextEnv]_vars

----------------------------------------------------------------------------
(* The specification of the forms: the cart's handlers under forms that    *)
(* the validation is to turn down, and under prices that are not decimal   *)
(* numbers, with a log of at most FormsLogRows rows.                       *)

FormsLogRows == 1      \* the bound on the log's rows in this specification

\* a name of MAX_NAME_LEN + 1 characters
LongName == [i \in 1..(MAX_NAME_LEN + 1) |-> "a"]

FormsAddForms ==
    { <<Milk, Price200, <<"1">>>>,
      <<Eggs, <<"n", "a", "n">>, <<"1">>>>,
      <<<<" ">>, Price200, <<"1">>>>,
      <<LongName, Price200, <<"1">>>>,
      <<Eggs, <<>>, <<"1">>>>,
      <<Eggs, <<"a", "b", "c">>, <<"1">>>>,
      <<Eggs, <<"0">>, <<"1">>>>,
      <<Eggs, <<"-", "2", ".", "0", "0">>, <<"1">>>>,
      <<Eggs, <<"1", "0", "0", "0", "0", "0", "0">>, <<"1">>>>,
      <<Eggs, <<"i", "n", "f">>, <<"1">>>>,
      <<Eggs, Price200, <<>>>>,
      <<Eggs, Price200, <<"1", ".", "5">>>>,
      <<Eggs, Price200, <<"0">>>>,
      <<Eggs, Price200, <<"1", "0", "0", "1">>>> }

FormsUpdateForms ==
    { <<milk, <<"2">>>>,
      <<milk, <<"-", "1">>>>,
      <<milk, <<"1", "0", "0", "1">>>> }

FormsRemoveUrls == { bread, eggs }

NextForms ==
    \/ Index
    \/ \E f \in FormsAddForms : AddItemReq(f[1], f[2], f[3])
    \/ \E u \in FormsRemoveUrls : RemoveItemReq(u)
    \/ \E f \in FormsUpdateForms : UpdateQuantityReq(f[1], f[2])
    \/ ClearCartReq
    \/ \E t2, t3 \in Times(CartTicks) : CheckoutReq(t2, t3, CartTicks, FormsLogRows)

SpecForms == Init /\ [][NextForms]_vars

----------------------------------------------------------------------------
(* What the properties below read off a state. *)

\* the line items of the session's cart: name, unit price, quantity
CartLines(sess) ==
    IF "cart_items" \in DOMAIN sess
    THEN [i \in DOMAIN sess.cart_items |->
            [name     |-> sess.cart_items[i].name,
             price    |-> sess.cart_items[i].price,
             quantity |-> sess.cart_items[i].quantity]]
    ELSE <<>>

\* the rows of the log as mappings from column name to text
Rows(f) == get_all_transactions(f)

\* the rows of the log that carry the id
RowsOf(f, id) == SelectSeq(LogRows(f), LAMBDA rec : rec[1] = id)

\* a step of the /checkout handler (the message it flashes is looked at first)
CheckoutStep ==
    /\ flash'.message \in {"Cart is empty",
                           "Transaction completed! Transaction ID: {transaction_id}"}
    /\ \E t2, t3 \in Times(MaxTicks) : CheckoutReq(t2, t3, MaxTicks, MaxLogRows)

Completed == flash.message = "Transaction completed! Transaction ID: {transaction_id}"

----------------------------------------------------------------------------
(* C1: a checkout of a cart of n >= 1 line items appends exactly n rows to  *)
(* the log, the i-th row for the i-th line item, all n rows with the same   *)
(* transaction id, date and time; it reports that id, and the cart is       *)
(* empty afterwards.                                                        *)

C1_CheckoutAppendsOneRowPerItem ==
    [][ (CheckoutStep /\ CartLines(session) # <<>>) =>
          LET items == CartLines(session)
              n     == Len(items)
              old   == LogRows(file)
              new   == Rows(file')
              m     == Len(old)
          IN  /\ flash'.category = "success"
              /\ Len(LogRows(file')) = m + n
              /\ SubSeq(LogRows(file'), 1, m) = old
              /\ Len(new) = m + n
              /\ \A i \in 1..n :
                    /\ new[m + i][S_Item_Name] = items[i].name
                    /\ new[m + i][S_Quantity] = IntToStr(items[i].quantity)
                    /\ new[m + i][S_Transaction_ID] = flash'.value
                    /\ new[m + i][S_Date] = new[m + 1][S_Date]
                    /\ new[m + i][S_Time] = new[m + 1][S_Time]
              /\ StartsWith(flash'.value, TxnPrefix)
              /\ CartLines(session') = <<>>
      ]_vars

\* a checkout of a two-item cart has been appended after an earlier transaction
C1_Witness ==
    /\ Completed
    /\ CartLines(session) = <<>>
    /\ Len(RowsOf(file, flash.value)) = 2
    /\ Len(LogRows(file)) = 3
    /\ LogRows(file)[1][1] # flash.value
    /\ LogRows(file)[2][4] # LogRows(file)[3][4]

----------------------------------------------------------------------------
(* C2: a checkout of an empty cart fails with the empty-cart error and      *)
(* appends nothing: the rows of the log and the (empty) cart are as         *)
(* before. ShoppingCart.complete_transaction raises ValueError and leaves   *)
(* items and file alone; the /checkout handler flashes "Cart is empty".     *)

C2_EmptyCheckoutChangesNothing ==
    [][ /\ LET r == complete_transaction(<<>>, file, now, now, now)
           IN  r.raised = "ValueError" /\ r.file = file /\ r.items = <<>>
        /\ (CheckoutStep /\ CartLines(session) = <<>>) =>
              /\ flash' = Flash("error", "Cart is empty")
              /\ LogRows(file') = LogRows(file)
              /\ CartLines(session') = <<>>
              /\ now' = now
      ]_vars

\* the empty-cart error has been flashed while the log holds rows
C2_Witness ==
    /\ flash = Flash("error", "Cart is empty")
    /\ CartLines(session) = <<>>
    /\ Len(LogRows(file)) >= 1

----------------------------------------------------------------------------
(* What the properties of the cart's handlers read off a request. *)

\* the indices of the line items whose name equals name ignoring case
Matches(lines, name) == {i \in DOMAIN lines : Lower(lines[i].name) = Lower(name)}

First(hits) == CHOOSE i \in hits : \A j \in hits : i <= j

\* lines without its i-th element
Without(lines, i) == [k \in 1..(Len(lines) - 1) |-> IF k < i THEN lines[k] ELSE lines[k + 1]]

ValidAddForm(f) == add_item_error(Strip(f[1]), Strip(f[2]), Strip(f[3])) = ""

ValidUpdateForm(f) == update_quantity_error(Strip(f[1]), Strip(f[2])) = ""

NotFound == Flash("error", "Item not found in cart")

----------------------------------------------------------------------------
(* C3: in every state of the cart that add, remove, update, clear and       *)
(* checkout requests lead to, each saved to and rebuilt from the session,   *)
(* no two line items have names that are equal ignoring case.               *)

C3_NamesUniqueIgnoringCase ==
    \A i, j \in DOMAIN CartLines(session) :
        i # j => Lower(CartLines(session)[i].name) # Lower(CartLines(session)[j].name)

\* "milk" x 1000 has been merged into the line "Milk" x 1 of a three-line cart
C3_Witness ==
    /\ Len(CartLines(session)) = 3
    /\ \E i \in DOMAIN CartLines(session) :
          /\ CartLines(session)[i].name = Milk
          /\ CartLines(session)[i].quantity = MAX_QUANTITY + 1

----------------------------------------------------------------------------
(* C4: add_item(name, price, quantity): when a line item's name equals name *)
(* ignoring case, the quantity of the first such item grows by quantity,    *)
(* its name, price and position stay, and the number of line items stays;   *)
(* otherwise (name, price, quantity) is appended.  Every other line item is *)
(* unchanged.                                                               *)

C4_AddMergesOrAppends ==
    [][ \A f \in CartAddForms :
          (/\ flash'.message = "Added {quantity} x {name} to cart"
           /\ AddItemReq(f[1], f[2], f[3]) /\ ValidAddForm(f)) =>
            LET pre      == CartLines(session)
                post     == CartLines(session')
                name     == Strip(f[1])
                price    == FloatUnits(ParseFloat(Strip(f[2])))
                quantity == ParseInt(Strip(f[3])).val
                hits     == Matches(pre, name)
            IN  IF hits # {}
                THEN /\ Len(post) = Len(pre)
                     /\ \A i \in DOMAIN pre :
                           /\ post[i].name = pre[i].name
                           /\ post[i].price = pre[i].price
                           /\ post[i].quantity =
                                 IF i = First(hits) THEN pre[i].quantity + quantity
                                 ELSE pre[i].quantity
                ELSE post = Append(pre, [name |-> name, price |-> price,
                                         quantity |-> quantity])
      ]_vars

\* "milk" at 3.50 x 1000 has been merged into the first line, "Milk" at 2.00 x 1
C4_Witness ==
    /\ flash.message = "Added {quantity} x {name} to cart"
    /\ Len(CartLines(session)) >= 2
    /\ CartLines(session)[1] = [name |-> Milk, price |-> 2 * Scale,
                                quantity |-> MAX_QUANTITY + 1]

----------------------------------------------------------------------------
(* C5: every line item of every cart the web handlers lead to has a         *)
(* quantity in 1..1000.                                                     *)

C5_QuantityInRange ==
    \A i \in DOMAIN CartLines(session) :
        /\ CartLines(session)[i].quantity >= 1
        /\ CartLines(session)[i].quantity <= MAX_QUANTITY

----------------------------------------------------------------------------
(* C6: update_item_quantity(name, new_quantity): when an item matches name  *)
(* ignoring case and new_quantity <= 0, the cart is what remove_item(name)  *)
(* leaves; when one matches and new_quantity > 0, only that item's quantity *)
(* changes, to new_quantity; both return true.  When none matches it        *)
(* returns false and the cart is unchanged.  The handler saves the cart it  *)
(* got and reports success exactly when true was returned.                  *)

C6_UpdateSetsOrRemoves ==
    [][ \A f \in CartUpdateForms :
          (/\ flash'.category = "success" \/ flash' = NotFound
           /\ UpdateQuantityReq(f[1], f[2]) /\ ValidUpdateForm(f)) =>
            LET pre  == CartLines(session)
                post == CartLines(session')
                name == Strip(f[1])
                q    == ParseInt(Strip(f[2])).val
                hits == Matches(pre, name)
            IN  /\ \A nonpositive \in {-1, 0} :
                      LET r == update_item_quantity(pre, name, nonpositive)
                      IN  /\ r.items = remove_item(pre, name).items
                          /\ r.ret = (hits # {})
                /\ IF hits = {}
                   THEN flash' = NotFound /\ post = pre
                   ELSE /\ flash'.category = "success"
                        /\ IF q <= 0
                           THEN post = Without(pre, First(hits))
                           ELSE post = [pre EXCEPT ![First(hits)].quantity = q]
      ]_vars

\* "bread" has been set to 1000 in a cart of two or more lines
C6_Witness ==
    /\ flash.message = "Updated {item_name} quantity to {new_quantity}"
    /\ Len(CartLines(session)) >= 2
    /\ \E i \in DOMAIN CartLines(session) :
          /\ CartLines(session)[i].name = Bread
          /\ CartLines(session)[i].quantity = MAX_QUANTITY

----------------------------------------------------------------------------
(* C7: remove_item(name) removes the first line item whose name equals name *)
(* ignoring case, and only it, and returns true: the other line items stay, *)
(* in their order.  When none matches it returns false, the cart is         *)
(* unchanged and the /remove_item handler does not save the cart.           *)

C7_RemoveFirstMatchOnly ==
    [][ \A u \in CartRemoveUrls :
          (/\ flash'.category = "success" \/ flash' = NotFound
           /\ RemoveItemReq(u)) =>
            LET pre  == CartLines(session)
                post == CartLines(session')
                hits == Matches(pre, Strip(u))
            IN  IF hits = {}
                THEN /\ flash' = NotFound
                     /\ post = pre
                     /\ "cart_items" \in DOMAIN session => session' = session
                ELSE /\ flash' = Flash("success", "Removed {item_name} from cart")
                     /\ post = Without(pre, First(hits))
      ]_vars

\* a line has been removed from between "Milk" and "Eggs", which no update
\* form of the specification removes
C7_Witness ==
    /\ flash = Flash("success", "Removed {item_name} from cart")
    /\ Len(CartLines(session)) = 2
    /\ Lower(CartLines(session)[1].name) = milk
    /\ CartLines(session)[2].name = Eggs

----------------------------------------------------------------------------
(* What the properties of the log read off a request. *)

\* the id the /delete_transaction handler passes on, when it passes one on
ValidDeleteUrl(u) == Strip(u) # <<>> /\ StartsWith(Strip(u), TxnPrefix)

\* a step of the /delete_transaction handler that reached delete_transaction
\* (the message it flashes is looked at first)
DeleteStep(u) ==
    /\ flash'.message \in {"Transaction deleted successfully",
                           "Failed to delete transaction or transaction not found",
                           "An error occurred while deleting transaction: {e}"}
    /\ ValidDeleteUrl(u)
    /\ DeleteTransactionReq(u)

\* the sum of the Total column, in cents
RECURSIVE SumTotalCents(_)
SumTotalCents(rows) ==
    IF rows = <<>> THEN 0
    ELSE SumTotalCents(SubSeq(rows, 1, Len(rows) - 1)) + Float2Cents(rows[Len(rows)][S_Total])

Abs(x) == IF x < 0 THEN -x ELSE x

----------------------------------------------------------------------------
(* C8: delete_transaction(id) on a log that exists removes every row whose  *)
(* Transaction_ID is id and leaves every other row, those of other          *)
(* transactions included, with its content and in its place among the       *)
(* others.                                                                  *)

----------------------------------------------------------------------------
(* C9: delete_transaction(id) returns false and changes nothing when the    *)
(* store does not exist; when the store exists it returns true, whether or  *)
(* not a row matched, and when none matched the rows of the log are as      *)
(* before.                                                                  *)

----------------------------------------------------------------------------
(* C10 as claimed: after a checkout that reported id t, the rows            *)
(* get_transaction_by_id(t) returns have Totals that sum to the cart's      *)
(* get_total() at that checkout, both rounded to 2 decimals.                *)

C10_RoundTripExact ==
    [][ (CheckoutStep /\ CartLines(session) # <<>>) =>
          LET found == get_transaction_by_id(file', flash'.value)
          IN  /\ found.raised = ""
              /\ SumTotalCents(found.ret) = Cents(cart_get_total(CartLines(session)))
      ]_vars

(* C10 as amended: after a checkout of n line items that reported id t,     *)
(* get_transaction_by_id(t) returns the rows of every checkout that drew    *)
(* the id t, the last n of them this checkout's; the Totals of these n,     *)
(* each rounded on its own, sum to within n half-cents of the cart's        *)
(* get_total(), and to get_total() rounded to 2 decimals when n = 1.        *)

C10_RoundTripWithinHalfCentPerRow ==
    [][ (CheckoutStep /\ CartLines(session) # <<>>) =>
          LET items == CartLines(session)
              n     == Len(items)
              found == get_transaction_by_id(file', flash'.value)
              k     == Len(found.ret)
              mine  == SubSeq(found.ret, k - n + 1, k)
              total == cart_get_total(items)
          IN  /\ found.raised = ""
              /\ k = n + Len(RowsOf(file, flash'.value))
              /\ Abs(SumTotalCents(mine) * (Scale \div 100) - total) * 2
                    <= n * (Scale \div 100)
              /\ n = 1 => SumTotalCents(mine) = Cents(total)
      ]_vars

\* "Milk" 2.00 x 1 and "Bread" 3.50 x 1 have been checked out: the rows read
\* 2.21 and 3.87, in all 6.08, and get_total() was 6.0742
C10_Witness ==
    /\ Completed
    /\ LET found == get_transaction_by_id(file, flash.value).ret
       IN  /\ Len(found) = 2
           /\ found[1][S_Total] = <<"2", ".", "2", "1">>
           /\ found[2][S_Total] = <<"3", ".", "8", "7">>
           /\ SumTotalCents(found) = 608

----------------------------------------------------------------------------
(* What the properties of the shared log read off a step. *)

FailedCheckout == Flash("error", "Failed to complete transaction: {e}")

\* the step that ends the /checkout request in flight, with or without success
CheckoutEnds == inflight.checkout.active /\ ~inflight'.checkout.active

\* s is a prefix of t
IsPrefix(s, t) == Len(s) <= Len(t) /\ SubSeq(t, 1, Len(s)) = s

----------------------------------------------------------------------------
(* C11: checkout is all-or-nothing on the log: when a /checkout request     *)
(* ends, either every row of its line items has been written or none has,   *)
(* also when the append fails part-way through.                             *)

C11_CheckoutAllOrNothing ==
    [][ CheckoutEnds =>
          LET n       == Len(inflight.checkout.items)
              written == Len(file'.lines) - Len(file.lines)
          IN  written = 0 \/ written = n
      ]_vars

----------------------------------------------------------------------------
(* C12: delete_transaction reads all rows and then rewrites them, not in    *)
(* one step: its rewrite leaves in the log exactly the rows it read whose    *)
(* id differs from the deleted one, so the rows a checkout has appended     *)
(* since the read, the checkout having reported success with another id,    *)
(* are absent from the log afterwards.                                      *)

C12_RewriteLosesAppendedRows ==
    [][ (inflight.delete.active /\ DeleteRewrite) =>
          LET d    == inflight.delete
              kept == [i \in DOMAIN d.all_transactions |->
                         DictRecord(d.fieldnames, d.all_transactions[i])]
          IN  /\ file'.exists
              /\ d.fieldnames # <<>> => file'.lines = <<d.fieldnames>> \o kept
              /\ (/\ Completed
                  /\ flash.value # d.transaction_id
                  /\ RowsOf(file, flash.value) # <<>>
                  /\ \A i \in DOMAIN kept : kept[i][1] # flash.value)
                 => RowsOf(file', flash.value) = <<>>
      ]_vars

\* the checkout of this session has reported its id, the other session's
\* delete of another id has ended with success, and the log, with its header,
\* holds no row of the checkout's id
C12_Witness ==
    /\ Completed
    /\ ~inflight.delete.active
    /\ inflight.delete.flash = Deleted.message
    /\ inflight.delete.transaction_id # flash.value
    /\ file.exists
    /\ file.lines = <<Header>>
    /\ CartLines(session) = <<>>

----------------------------------------------------------------------------
(* C13: the log is append-only under checkout: an append leaves the lines   *)
(* of the file as they are and puts the new rows after them, with or        *)
(* without success; /receipts and /receipt/<id> (get_all_transactions,      *)
(* get_transaction_by_id) leave the file as it is; only the rewrite of      *)
(* delete_transaction (and the removal of the store from outside) takes     *)
(* lines away.                                                              *)

C13_AppendOnly ==
    [][ /\ (DeleteRewrite \/ RemoveStore \/ IsPrefix(file.lines, file'.lines))
        /\ CheckoutEnds =>
              /\ IsPrefix(file.lines, file'.lines)
              /\ flash'.category = "success" =>
                    Len(file'.lines) = Len(file.lines) + Len(inflight.checkout.items)
        /\ (ReceiptsReq \/ \E u \in EnvDeleteUrls : ViewReceiptReq(u)) => file' = file
      ]_vars

\* a second transaction has been appended after the row of a first
C13_Witness ==
    /\ Completed
    /\ file.lines # <<>> /\ Head(file.lines) = Header
    /\ Len(LogRows(file)) = 2
    /\ LogRows(file)[1][4] = Milk
    /\ LogRows(file)[2][4] = Bread

----------------------------------------------------------------------------
(* C15: no handler ends in an unhandled exception: in every state of the    *)
(* session and the log, whatever route is requested, no exception leaves    *)
(* the handler.                                                             *)

C15_NoUnhandledException ==
    \A route \in Routes : Unhandled(route, session, file) = ""

----------------------------------------------------------------------------
(* C16: whenever the store exists, its first row is the header              *)
(* [Transaction_ID, Date, Time, Item_Name, Price, Quantity, Subtotal, Tax,  *)
(* Total], also after an append made when the store has gone missing since  *)
(* the TransactionManager was constructed, and after a delete.              *)

C16_HeaderFirst ==
    file.exists => (file.lines # <<>> /\ Head(file.lines) = Header)

----------------------------------------------------------------------------
(* C19: checkout persists before it clears: complete_transaction clears the *)
(* cart only after save_transaction has returned, so when the append fails  *)
(* the cart it holds is as before, the /checkout handler reports the        *)
(* failure, and the session's cart holds the line items it held before the  *)
(* request; when the append succeeds the rows are in the file and the       *)
(* session's cart is empty.                                                 *)

C19_PersistBeforeClear ==
    [][ CheckoutEnds =>
          LET items == inflight.checkout.items
          IN  /\ \A opened \in BOOLEAN : \A written \in 0..(Len(items) - 1) :
                    complete_transaction_raising(items, file, now, now, now,
                                                 opened, written).items = items
              /\ IF flash'.category = "success"
                 THEN /\ CartLines(session') = <<>>
                      /\ Len(file'.lines) = Len(file.lines) + Len(items)
                 ELSE /\ flash' = FailedCheckout
                      /\ CartLines(session') = items
                      /\ CartLines(session') = CartLines(session)
                      /\ Len(file'.lines) < Len(file.lines) + Len(items)
      ]_vars

\* the append of a two-item cart has failed after its first row: the failure
\* is reported, the row is in the log and the cart holds its two items
C19_Witness ==
    /\ flash = FailedCheckout
    /\ ~inflight.checkout.active
    /\ Len(CartLines(session)) = 2
    /\ Len(LogRows(file)) = 1
    /\ LogRows(file)[1][4] = CartLines(session)[1].name

----------------------------------------------------------------------------
(* What the properties of the amounts read off a row. *)

\* the sum of a column of amounts, in cents
RECURSIVE SumColumnCents(_, _)
SumColumnCents(rows, key) ==
    IF rows = <<>> THEN 0
    ELSE SumColumnCents(SubSeq(rows, 1, Len(rows) - 1), key)
            + Float2Cents(rows[Len(rows)][key])

\* text is an amount with two decimals that is x (in units) rounded to the cent
RoundedTo2(text, x) ==
    /\ Len(text) >= 4
    /\ text[Len(text) - 2] = "."
    /\ Abs(Float2Cents(text) * (Scale \div 100) - x) * 2 <= Scale \div 100

----------------------------------------------------------------------------
(* C18: every row a checkout writes has Subtotal, Tax and Total equal to    *)
(* the line item's unitPrice*quantity, that times 0.1044, and their sum,    *)
(* each rounded to 2 decimals; the rows of the cart [(Bread, 3.50, 2),      *)
(* (Milk, 2.00, 1)] sum to subtotal 9.00, tax 0.94 and total 9.94.          *)

C18_RowsRoundedAtWrite ==
    [][ (CheckoutStep /\ CartLines(session) # <<>>) =>
          LET items == CartLines(session)
              n     == Len(items)
              rows  == Rows(file')
              new   == SubSeq(rows, Len(rows) - n + 1, Len(rows))
          IN  /\ Len(rows) >= n
              /\ \A i \in 1..n :
                    LET subtotal == items[i].price * items[i].quantity
                        tax      == (subtotal * TAX_RATE) \div Scale
                    IN  /\ (subtotal * TAX_RATE) % Scale = 0
                        /\ RoundedTo2(new[i][S_Subtotal], subtotal)
                        /\ RoundedTo2(new[i][S_Tax], tax)
                        /\ RoundedTo2(new[i][S_Total], subtotal + tax)
              /\ items = << [name |-> Bread, price |-> 35000, quantity |-> 2],
                            [name |-> Milk, price |-> 20000, quantity |-> 1] >>
                 => /\ SumColumnCents(new, S_Subtotal) = 900
                    /\ SumColumnCents(new, S_Tax) = 94
                    /\ SumColumnCents(new, S_Total) = 994
      ]_vars

\* the cart [(Bread, 3.50, 2), (Milk, 2.00, 1)] has been checked out
C18_Witness ==
    /\ Completed
    /\ LET rows == Rows(file)
       IN  /\ Len(rows) >= 2
           /\ rows[Len(rows) - 1][S_Item_Name] = Bread
           /\ rows[Len(rows) - 1][S_Quantity] = <<"2">>
           /\ rows[Len(rows) - 1][S_Tax] = <<"0", ".", "7", "3">>
           /\ rows[Len(rows)][S_Item_Name] = Milk
           /\ rows[Len(rows)][S_Tax] = <<"0", ".", "2", "1">>
           /\ rows[Len(rows)][S_Transaction_ID] = flash.value
           /\ rows[Len(rows) - 1][S_Transaction_ID] = flash.value

----------------------------------------------------------------------------
(* What the properties of the forms read off a request. *)

\* the text is a number that is > 0 and <= 999999.99
PriceInRange(text) ==
    LET p == ParseFloat(text)
    IN  /\ p.ok
        /\ p.special = ""
        /\ ~p.neg
        /\ p.whole > 0 \/ p.frac > 0
        /\ p.whole < 999999 \/ (p.whole = 999999 /\ p.frac <= 9900)

\* the text is an integer of lo..hi
IntInRange(text, lo, hi) ==
    /\ ParseInt(text).ok
    /\ ParseInt(text).val >= lo
    /\ ParseInt(text).val <= hi

\* an /add_item form with an empty name, a name longer than 100 characters,
\* a price that is not > 0 and <= 999999.99, or a quantity outside 1..1000
BadAddForm(f) ==
    \/ Strip(f[1]) = <<>>
    \/ Len(Strip(f[1])) > 100
    \/ ~PriceInRange(Strip(f[2]))
    \/ ~IntInRange(Strip(f[3]), 1, 1000)

\* an /update_quantity form with a negative quantity or one above 1000
BadUpdateForm(f) ==
    /\ ParseInt(Strip(f[2])).ok
    /\ ParseInt(Strip(f[2])).val < 0 \/ ParseInt(Strip(f[2])).val > 1000

----------------------------------------------------------------------------
(* C14: an /add_item request with an empty name, a name longer than 100     *)
(* characters, a price that is not > 0 and <= 999999.99 or a quantity       *)
(* outside 1..1000, and an /update_quantity request with a negative         *)
(* quantity or one above 1000, ends with an error message and leaves the    *)
(* session's cart and the log as they are.                                  *)

C14_InvalidRequestsChangeNothing ==
    [][ /\ \A f \in FormsAddForms :
              (BadAddForm(f) /\ AddItemReq(f[1], f[2], f[3])) =>
                  /\ flash'.category = "error"
                  /\ CartLines(session') = CartLines(session)
                  /\ file' = file
        /\ \A f \in FormsUpdateForms :
              (BadUpdateForm(f) /\ UpdateQuantityReq(f[1], f[2])) =>
                  /\ flash'.category = "error"
                  /\ CartLines(session') = CartLines(session)
                  /\ file' = file
      ]_vars

----------------------------------------------------------------------------
(* C17: in every state of the cart, get_total() equals the sum over the     *)
(* line items of price*quantity + price*quantity*0.1044 and equals          *)
(* get_subtotal() + get_tax(), get_subtotal() being the sum of              *)
(* price*quantity and get_tax() the sum of price*quantity*0.1044; for an    *)
(* empty cart all three are 0.                                              *)

C17_TotalIsSumOfLines ==
    LET items == get_cart(session, file).items
    IN  /\ FloatEq(cart_get_total(items),
                   Sum([i \in DOMAIN items |->
                          FloatAdd(item_get_subtotal(items[i]), item_get_tax(items[i]))]))
        /\ FloatEq(cart_get_total(items),
                   FloatAdd(cart_get_subtotal(items), cart_get_tax(items)))
        /\ items = <<>> =>
              /\ cart_get_total(items) = 0
              /\ cart_get_subtotal(items) = 0
              /\ cart_get_tax(items) = 0

----------------------------------------------------------------------------
(* C20: the session round trip: the cart a request rebuilds with get_cart   *)
(* has the line items of the cart the request before it saved with          *)
(* save_cart, name, unit price and quantity, in their order, and saving it  *)
(* again gives the same session; so a request that makes no change to the   *)
(* cart (index, a remove of a name that is not in the cart, a form that is  *)
(* turned down) leaves the session's cart as it is.                         *)

C20_SessionRoundTrip ==
    [][ /\ LET saved   == CartLines(session')
               rebuilt == get_cart(session', file').items
           IN  /\ rebuilt = saved
               /\ "cart_items" \in DOMAIN session' =>
                     /\ save_cart(session', rebuilt) = session'
                     /\ get_cart(save_cart(session', rebuilt), file').items = rebuilt
        /\ Index => CartLines(session') = CartLines(session)
        /\ flash'.category = "error" => CartLines(session') = CartLines(session)
      ]_vars

\* a cart of two lines, one of them with quantity 2, has been rebuilt from
\* the session by a request that changes nothing
C20_Witness ==
    /\ flash = NotFound
    /\ Len(CartLines(session)) = 2
    /\ CartLines(session)[1] = [name |-> Milk, price |-> 2 * Scale, quantity |-> 2]
    /\ CartLines(session)[2].name = Eggs

====
